---- MODULE Spec2Model ----
(***************************************************************************)
(* A model of the two units of FormSelect.vue: the reactive data store     *)
(* useMvuDataStore (refresh / updateField / deleteField over the external  *)
(* per-message document) and the searchable selection widget.              *)
(***************************************************************************)
EXTENDS Naturals, Sequences, FiniteSets, TLC

VARIABLES
  schema,           \* which Schema the application was built with
  doc,              \* the external per-message document: its stat_data sub-tree
  data,             \* store.data            (<<>> is null, <<d>> a document)
  loading,          \* store.loading
  error,            \* store.error           (<<>> is null, <<text>> a message)
  lastRefreshTime,  \* store.lastRefreshTime (<<>> is null, <<t>> a timestamp)
  pc,               \* per call slot: where the async mutation is suspended
  args,             \* per call slot: the operation, path and value of the call
  payload,          \* per call slot: the document handed to Mvu.replaceMvuData
  resolved,         \* per call slot: the boolean the promise resolved with
  thrownBy,         \* per call slot: the step of the try block that threw, or "none"
  wrote,            \* call slots in the order their write-back was applied
  finished,         \* call slots in the order their promise resolved
  prev,             \* the call returned last: its arguments and its result
  props,            \* per widget: the props disabled and searchable
  options,          \* the prop options the page passes to its widgets
  touch,            \* whether the device is touch-capable
  mounted,          \* per widget: whether its document listeners are registered
  isOpen,           \* per widget: the ref isOpen
  searchQuery,      \* per widget: the ref searchQuery, a sequence of characters
  watched,          \* per widget: the value of isOpen the watcher last saw
  focusPending,     \* per widget: a nextTick focus callback is scheduled
  focused,          \* the widget whose search field has the focus, or "none"
  emitted,          \* the events emitted by the last handler, in order
  rendered,         \* per widget: the option items of its last render, or
                    \* <<>> while a re-render is queued
  lastEvent         \* the event handled last: its kind, its widget, its input

storeVars == <<schema, doc, data, loading, error, lastRefreshTime,
               pc, args, payload, resolved, thrownBy, wrote, finished, prev>>

widgetVars == <<props, options, touch, mounted, isOpen, searchQuery, watched,
                focusPending, focused, emitted, rendered, lastEvent>>

vars == <<storeVars, widgetVars>>

(***************************************************************************)
(* Bounds                                                                  *)
(***************************************************************************)
MaxTime == 1
MaxQueryLen == 2

\* the two call slots: two calls of updateField / deleteField can overlap
Calls == {"c1", "c2"}

(***************************************************************************)
(* Values and documents.                                                   *)
(* A scalar is the number 1 ("v1"), the number 5 ("v5") or a string that   *)
(* is no number ("bad").  stat_data is undefined, a non-object (null or a  *)
(* primitive), or an object whose field a is absent, a scalar, or an       *)
(* object with the fields b and c.                                         *)
(***************************************************************************)
Absent == "absent"
Scalars == {"v1", "v5", "bad"}
Numbers == {"v1", "v5"}
FieldVals == Scalars \cup {Absent}

None == << >>
Some(x) == <<x>>

MkDoc(kind, ak, av, b, c) == [kind |-> kind, ak |-> ak, av |-> av, b |-> b, c |-> c]

Undefined == MkDoc("undef", Absent, Absent, Absent, Absent)
NotObject == MkDoc("notobj", Absent, Absent, Absent, Absent)
EmptyObject == MkDoc("obj", Absent, Absent, Absent, Absent)
ScalarA(v) == MkDoc("obj", "scalar", v, Absent, Absent)
ObjectA(b, c) == MkDoc("obj", "obj", Absent, b, c)

Docs == {Undefined, NotObject, EmptyObject}
          \cup {ScalarA(v) : v \in Scalars}
          \cup {ObjectA(b, c) : b \in FieldVals, c \in FieldVals}

Paths == {"a", "a.b", "a.c"}

(***************************************************************************)
(* lodash: _.get(variables, 'stat_data', {}), _.set, _.unset, _.merge      *)
(***************************************************************************)
\* _.get(variables, 'stat_data', {}): the default replaces undefined only
GetRaw(d) == IF d.kind = "undef" THEN EmptyObject ELSE d

\* _.isObject(rawData)
IsObject(d) == d.kind = "obj"

\* _.get(d, p) on a stat_data value (Absent where nothing is stored); an
\* object stored at a reads as "object"
GetAt(d, p) ==
  IF d.kind # "obj" THEN Absent
  ELSE CASE p = "a"   -> (IF d.ak = "scalar" THEN d.av
                          ELSE IF d.ak = "obj" THEN "object" ELSE Absent)
         [] p = "a.b" -> d.b
         [] p = "a.c" -> d.c

\* _.set(mvuData, path, value), without the stat_data prefix: stat_data stays
SetPath_WrongRoot(d, p, v) == d

\* _.set(mvuData, `stat_data.${path}`, value): every non-object on the way to
\* the last key is replaced by a fresh object
SetPath(d, p, v) ==
  CASE p = "a"   -> ScalarA(v)
    [] p = "a.b" -> (IF d.kind = "obj" /\ d.ak = "obj" THEN ObjectA(v, d.c)
                     ELSE ObjectA(v, Absent))
    [] p = "a.c" -> (IF d.kind = "obj" /\ d.ak = "obj" THEN ObjectA(d.b, v)
                     ELSE ObjectA(Absent, v))

\* _.unset(mvuData, path), without the stat_data prefix: stat_data stays
UnsetPath_WrongRoot(d, p) == d

\* _.unset(mvuData, `stat_data.${path}`): deletes the last key from its parent
\* when the parent is an object, and changes nothing otherwise
UnsetPath(d, p) ==
  IF d.kind # "obj" THEN d
  ELSE CASE p = "a"   -> EmptyObject
         [] p = "a.b" -> (IF d.ak = "obj" THEN ObjectA(Absent, d.c) ELSE d)
         [] p = "a.c" -> (IF d.ak = "obj" THEN ObjectA(d.b, Absent) ELSE d)

\* one merged field: a source value that is not undefined overrides
MergeField(dst, src) == IF src = Absent THEN dst ELSE src

\* _.merge(_.cloneDeep(defaults), src) for an object src: objects merge
\* field by field, a scalar source value replaces the destination
Merge(defaults, src) ==
  CASE src.ak = "absent" -> defaults
    [] src.ak = "scalar" -> src
    [] src.ak = "obj"    -> (IF defaults.ak = "obj"
                             THEN ObjectA(MergeField(defaults.b, src.b),
                                          MergeField(defaults.c, src.c))
                             ELSE src)

(***************************************************************************)
(* Schema (@/data_schema/schema), a zod object schema.  Two shapes:        *)
(*   "defaulted": { a: { b: number, c: number default 1 }                  *)
(*                       default { b: 1, c: 1 } }                          *)
(*   "required":  { a: { b: number, c: number default 1 } }                *)
(***************************************************************************)
Schemas == {"defaulted", "required"}
DefaultNumber == "v1"

Ok(d) == [data |-> d, success |-> TRUE, message |-> ""]
Fail(m) == [data |-> Undefined, success |-> FALSE, message |-> m]

IssueB(b) == IF b = Absent THEN "a.b: required;"
             ELSE IF b \notin Numbers THEN "a.b: expected number;" ELSE ""
IssueC(c) == IF c # Absent /\ c \notin Numbers THEN "a.c: expected number;" ELSE ""

\* Schema.safeParse(x)
SafeParse(s, x) ==
  IF x.kind # "obj" THEN Fail("stat_data: expected object;")
  ELSE CASE x.ak = "absent" ->
              (IF s = "defaulted" THEN Ok(ObjectA(DefaultNumber, DefaultNumber))
               ELSE Fail("a: required;"))
         [] x.ak = "scalar" -> Fail("a: expected object;")
         [] x.ak = "obj"    ->
              (IF IssueB(x.b) \o IssueC(x.c) # ""
               THEN Fail(IssueB(x.b) \o IssueC(x.c))
               ELSE Ok(ObjectA(x.b, IF x.c = Absent THEN DefaultNumber ELSE x.c)))

\* the value the schema puts at path p of a document that lacks it
SchemaDefaultAt(s, p) ==
  CASE p = "a.c" -> DefaultNumber
    [] p = "a.b" -> (IF s = "defaulted" THEN DefaultNumber ELSE Absent)
    [] p = "a"   -> (IF s = "defaulted" THEN "object" ELSE Absent)

\* Schema.parse({}): the schema's default instance, or a throw
ParseEmpty(s) ==
  [threw |-> ~SafeParse(s, EmptyObject).success,
   value |-> SafeParse(s, EmptyObject).data]

(***************************************************************************)
(* Thrown values: an Error with a message, an Error with an empty message, *)
(* a value that is no Error.                                               *)
(***************************************************************************)
NoFault == "none"
Thrown == {"Error:boom", "Error:", "nonError"}

\* e instanceof Error ? e.message : 'unknown error'
FaultText(e) ==
  CASE e = "Error:boom" -> "boom"
    [] e = "Error:"     -> ""
    [] OTHER            -> "unknown error"

\* `data format error: ${result.error?.message || 'unknown error'} (...)`
FormatErrorText(m) ==
  "data format error: " \o (IF m = "" THEN "unknown error" ELSE m) \o " (hint)"

(***************************************************************************)
(* refresh                                                                 *)
(***************************************************************************)
\* the validation without the repair attempt
Validate_NoRepair(s, rawData) == SafeParse(s, rawData)

\* the validation that reports the result of the repair attempt whenever it
\* made one
Validate_ReportsRetry(s, rawData) ==
  LET result == SafeParse(s, rawData)
      defaults == ParseEmpty(s)
      merged == Merge(defaults.value, IF IsObject(rawData) THEN rawData ELSE EmptyObject)
      retry == SafeParse(s, merged)
  IN  IF result.success THEN result
      ELSE IF defaults.threw THEN result
      ELSE retry

\* the arguments of the calls of Schema.safeParse in one refresh(), in order:
\* rawData (line 496) and, when that failed and Schema.parse({}) did not
\* throw, the merged document (line 504)
SafeParseCalls(s, rawData) ==
  LET result == SafeParse(s, rawData)
      defaults == ParseEmpty(s)
      merged == Merge(defaults.value, IF IsObject(rawData) THEN rawData ELSE EmptyObject)
  IN  IF result.success \/ defaults.threw THEN <<rawData>> ELSE <<rawData, merged>>

\* the validation of rawData with its one repair attempt (lines 496-511)
Validate(s, rawData) ==
  LET result == SafeParse(s, rawData)
      defaults == ParseEmpty(s)
      merged == Merge(defaults.value, IF IsObject(rawData) THEN rawData ELSE EmptyObject)
      retry == SafeParse(s, merged)
  IN  IF result.success THEN result
      ELSE IF defaults.threw THEN result
      ELSE IF retry.success THEN retry
      ELSE result

\* set(state => { state.loading = true }) on entry (lines 483-485)
RefreshEntered(st) == [st EXCEPT !.loading = TRUE]

\* refresh() that drops the stale data when the validation fails
Refreshed_ClearsData(st, s, d, f, t) ==
  LET result == Validate(s, GetRaw(d))
      entered == RefreshEntered(st)
  IN  IF f # NoFault
      THEN [entered EXCEPT !.error = Some(FaultText(f)), !.loading = FALSE]
      ELSE IF ~result.success
      THEN [entered EXCEPT !.error = Some(FormatErrorText(result.message)),
                           !.loading = FALSE, !.data = None]
      ELSE [data |-> Some(result.data), loading |-> FALSE, error |-> None,
            lastRefreshTime |-> Some(t)]

\* refresh() that stamps lastRefreshTime on its failure path too
Refreshed_StampsFailure(st, s, d, f, t) ==
  LET result == Validate(s, GetRaw(d))
      entered == RefreshEntered(st)
  IN  IF f # NoFault
      THEN [entered EXCEPT !.error = Some(FaultText(f)), !.loading = FALSE]
      ELSE IF ~result.success
      THEN [entered EXCEPT !.error = Some(FormatErrorText(result.message)),
                           !.loading = FALSE, !.lastRefreshTime = Some(t)]
      ELSE [data |-> Some(result.data), loading |-> FALSE, error |-> None,
            lastRefreshTime |-> Some(t)]

\* refresh() whose validation-failure path forgets state.loading = false
Refreshed_FailureKeepsLoading(st, s, d, f, t) ==
  LET result == Validate(s, GetRaw(d))
      entered == RefreshEntered(st)
  IN  IF f # NoFault
      THEN [entered EXCEPT !.error = Some(FaultText(f)), !.loading = FALSE]
      ELSE IF ~result.success
      THEN [entered EXCEPT !.error = Some(FormatErrorText(result.message))]
      ELSE [data |-> Some(result.data), loading |-> FALSE, error |-> None,
            lastRefreshTime |-> Some(t)]

\* refresh() whose catch block forgets state.loading = false
Refreshed_CatchKeepsLoading(st, s, d, f, t) ==
  LET result == Validate(s, GetRaw(d))
      entered == RefreshEntered(st)
  IN  IF f # NoFault
      THEN [entered EXCEPT !.error = Some(FaultText(f))]
      ELSE IF ~result.success
      THEN [entered EXCEPT !.error = Some(FormatErrorText(result.message)),
                           !.loading = FALSE]
      ELSE [data |-> Some(result.data), loading |-> FALSE, error |-> None,
            lastRefreshTime |-> Some(t)]

\* the store's state fields after refresh() ran on store st, where the fetch
\* step threw f (or NoFault), the document read is d and the clock shows t
Refreshed(st, s, d, f, t) ==
  LET result == Validate(s, GetRaw(d))
      entered == RefreshEntered(st)
  IN  IF f # NoFault
      THEN [entered EXCEPT !.error = Some(FaultText(f)), !.loading = FALSE]
      ELSE IF ~result.success
      THEN [entered EXCEPT !.error = Some(FormatErrorText(result.message)),
                      !.loading = FALSE]
      ELSE [data |-> Some(result.data), loading |-> FALSE, error |-> None,
            lastRefreshTime |-> Some(t)]

\* the store's state fields as one record
Store == [data |-> data, loading |-> loading, error |-> error,
          lastRefreshTime |-> lastRefreshTime]

\* the assignment of the store's fields from a record
SetStore(st) ==
  /\ data' = st.data
  /\ loading' = st.loading
  /\ error' = st.error
  /\ lastRefreshTime' = st.lastRefreshTime

callVars == <<pc, args, payload, resolved, thrownBy, wrote, finished, prev>>

\* the values new Date() can show: the clock never runs backwards
Times == 0..MaxTime
Clock == {t \in Times : lastRefreshTime = None \/ t >= lastRefreshTime[1]}

\* refresh() called by the application; f is what the fetch step threw and t
\* the time new Date() shows
refresh(f, t) ==
  /\ UNCHANGED widgetVars
  /\ t \in Clock
  /\ SetStore(Refreshed(Store, schema, doc, f, t))
  /\ UNCHANGED <<schema, doc, callVars>>

(***************************************************************************)
(* updateField / deleteField                                               *)
(***************************************************************************)
NoArgs == [value |-> Absent, op |-> "none", path |-> "none"]
Remove(seq, k) == SelectSeq(seq, LAMBDA x : x # k)

\* the steps of the try block that can throw before the write-back is awaited
SyncFaults == {"getCurrentMessageId", "getMvuData", "pathOp", "replaceMvuData"}

\* _.set or _.unset on the stat_data of the document read
PathOp(a, d) ==
  IF a.op = "update" THEN SetPath(d, a.path, a.value) ELSE UnsetPath(d, a.path)

\* the call: runs to `await waitGlobalInitialized('Mvu')` and suspends
Call(k, a) ==
  /\ UNCHANGED widgetVars
  /\ pc[k] = "idle"
  /\ pc' = [pc EXCEPT ![k] = "waitInit"]
  /\ args' = [args EXCEPT ![k] = a]
  /\ UNCHANGED <<schema, doc, data, loading, error, lastRefreshTime,
                 payload, resolved, thrownBy, wrote, finished, prev>>

updateField(k, p, v) == Call(k, [value |-> v, op |-> "update", path |-> p])

deleteField(k, p) == Call(k, [value |-> Absent, op |-> "delete", path |-> p])

\* a catch block that reports success
Caught_ResolvesTrue(k, step) ==
  /\ pc' = [pc EXCEPT ![k] = "done"]
  /\ resolved' = [resolved EXCEPT ![k] = TRUE]
  /\ thrownBy' = [thrownBy EXCEPT ![k] = step]
  /\ args' = [args EXCEPT ![k] = NoArgs]
  /\ payload' = [payload EXCEPT ![k] = Undefined]
  /\ finished' = Append(finished, k)

\* the catch block, entered by a throw of step: the promise resolves false;
\* the arguments and the document read go with the frame
Caught(k, step) ==
  /\ pc' = [pc EXCEPT ![k] = "done"]
  /\ resolved' = [resolved EXCEPT ![k] = FALSE]
  /\ thrownBy' = [thrownBy EXCEPT ![k] = step]
  /\ args' = [args EXCEPT ![k] = NoArgs]
  /\ payload' = [payload EXCEPT ![k] = Undefined]
  /\ finished' = Append(finished, k)

\* waitGlobalInitialized rejected
InitRejected(k) ==
  /\ UNCHANGED widgetVars
  /\ pc[k] = "waitInit"
  /\ Caught(k, "waitGlobalInitialized")
  /\ UNCHANGED <<schema, doc, data, loading, error, lastRefreshTime, wrote, prev>>

\* updateField / deleteField that call get().refresh() before the write-back
AfterInit_RefreshesFirst(k, fault) ==
  /\ UNCHANGED widgetVars
  /\ pc[k] = "waitInit"
  /\ IF fault = NoFault
     THEN /\ payload' = [payload EXCEPT ![k] = PathOp(args[k], doc)]
          /\ pc' = [pc EXCEPT ![k] = "writing"]
          /\ SetStore(Refreshed(Store, schema, doc, NoFault, 0))
          /\ UNCHANGED <<args, resolved, finished, thrownBy>>
     ELSE /\ Caught(k, fault)
          /\ UNCHANGED <<data, loading, error, lastRefreshTime>>
  /\ UNCHANGED <<schema, doc, wrote, prev>>

\* waitGlobalInitialized resolved: read the document, set or unset the path,
\* hand the document to Mvu.replaceMvuData and suspend; or one step throws
AfterInit(k, fault) ==
  /\ UNCHANGED widgetVars
  /\ pc[k] = "waitInit"
  /\ IF fault = NoFault
     THEN /\ payload' = [payload EXCEPT ![k] = PathOp(args[k], doc)]
          /\ pc' = [pc EXCEPT ![k] = "writing"]
          /\ UNCHANGED <<args, resolved, finished, thrownBy>>
     ELSE Caught(k, fault)
  /\ UNCHANGED <<schema, doc, data, loading, error, lastRefreshTime, wrote, prev>>

\* the document store takes the document written
WriteApplied(k) ==
  /\ UNCHANGED widgetVars
  /\ pc[k] = "writing"
  /\ doc' = payload[k]
  /\ pc' = [pc EXCEPT ![k] = "written"]
  /\ wrote' = Append(wrote, k)
  /\ UNCHANGED <<schema, data, loading, error, lastRefreshTime,
                 args, payload, resolved, thrownBy, finished, prev>>

\* Mvu.replaceMvuData rejected, before or after the store took the document
WriteRejected(k) ==
  /\ UNCHANGED widgetVars
  /\ pc[k] \in {"writing", "written"}
  /\ Caught(k, "replaceMvuData")
  /\ UNCHANGED <<schema, doc, data, loading, error, lastRefreshTime, wrote, prev>>

\* updateField / deleteField that return true without get().refresh()
WriteResolved_NoRefresh(k, f, t) ==
  /\ UNCHANGED widgetVars
  /\ pc[k] = "written"
  /\ t \in Clock
  /\ pc' = [pc EXCEPT ![k] = "done"]
  /\ resolved' = [resolved EXCEPT ![k] = TRUE]
  /\ finished' = Append(finished, k)
  /\ UNCHANGED <<schema, doc, data, loading, error, lastRefreshTime,
                 args, payload, thrownBy, wrote, prev>>

\* Mvu.replaceMvuData resolved: get().refresh(), then the promise resolves true
WriteResolved(k, f, t) ==
  /\ UNCHANGED widgetVars
  /\ pc[k] = "written"
  /\ t \in Clock
  /\ SetStore(Refreshed(Store, schema, doc, f, t))
  /\ pc' = [pc EXCEPT ![k] = "done"]
  /\ resolved' = [resolved EXCEPT ![k] = TRUE]
  /\ finished' = Append(finished, k)
  /\ UNCHANGED <<schema, doc, args, payload, thrownBy, wrote, prev>>

\* the caller takes the result; the slot is free for the next call
Return(k) ==
  /\ UNCHANGED widgetVars
  /\ pc[k] = "done"
  /\ pc' = [pc EXCEPT ![k] = "idle"]
  /\ args' = [args EXCEPT ![k] = NoArgs]
  /\ payload' = [payload EXCEPT ![k] = Undefined]
  /\ resolved' = [resolved EXCEPT ![k] = FALSE]
  /\ thrownBy' = [thrownBy EXCEPT ![k] = "none"]
  /\ wrote' = Remove(wrote, k)
  /\ finished' = Remove(finished, k)
  /\ prev' = [args |-> args[k], resolved |-> resolved[k]]
  /\ UNCHANGED <<schema, doc, data, loading, error, lastRefreshTime>>

(***************************************************************************)
(* The selection widget.  A text is a sequence of characters.              *)
(***************************************************************************)
\* the widgets mounted on one page
Widgets == {"w1", "w2"}

\* String.prototype.toLowerCase, character by character
LowerChar(ch) == CASE ch = "A" -> "a" [] ch = "B" -> "b" [] OTHER -> ch
ToLowerCase(text) == [i \in 1..Len(text) |-> LowerChar(text[i])]

\* String.prototype.trim: without the leading and trailing white space
IsSpace(ch) == ch = " "
Trim(text) ==
  LET kept == {i \in 1..Len(text) : ~IsSpace(text[i])}
      first == CHOOSE i \in kept : \A j \in kept : i <= j
      last == CHOOSE i \in kept : \A j \in kept : i >= j
  IN  IF kept = {} THEN << >> ELSE SubSeq(text, first, last)

\* String.prototype.includes
Includes(text, part) ==
  \E i \in 1..(Len(text) + 1) :
    /\ i + Len(part) - 1 <= Len(text)
    /\ SubSeq(text, i, i + Len(part) - 1) = part

\* props.options: records and plain strings
PropsOptions ==
  << [kind |-> "record", value |-> "x", label |-> <<"A", "b">>, disabled |-> FALSE],
     [kind |-> "record", value |-> "y", label |-> <<"b", " ", "a">>, disabled |-> TRUE],
     [kind |-> "string", value |-> "B", label |-> <<"B">>, disabled |-> FALSE] >>

\* the option as normalizedOptions shows it
NormalizedOption(option) ==
  IF option.kind = "string"
  THEN [value |-> option.value, label |-> option.label, disabled |-> FALSE]
  ELSE [value |-> option.value, label |-> option.label,
        disabled |-> option.disabled]

normalizedOptions == [i \in 1..Len(options) |-> NormalizedOption(options[i])]

\* filteredOptions that compares the label and the search text as they are
filteredOptions_CaseSensitive(q) ==
  IF Trim(q) = << >> THEN normalizedOptions
  ELSE SelectSeq(normalizedOptions, LAMBDA option : Includes(option.label, q))

\* filteredOptions for the search text q
filteredOptions(q) ==
  IF Trim(q) = << >> THEN normalizedOptions
  ELSE SelectSeq(normalizedOptions,
                 LAMBDA option : Includes(ToLowerCase(option.label), ToLowerCase(q)))

(***************************************************************************)
(* highlightMatch: the search text, escaped, as a global case-insensitive  *)
(* regular expression; every match is replaced by itself in a marker span. *)
(***************************************************************************)
\* the characters of the class [.*+?^${}()|[\]\\] that the replace escapes
RegexMeta ==
  {"[", ".", "^", "*", "+", "\\", "|", "$", "{", "}", "(", ")", "]", "?"}

\* query.replace(/[.*+?^${}()|[\]\\]/g, '\\$&')
RECURSIVE EscapeRegExp(_)
EscapeRegExp(q) ==
  IF q = << >> THEN << >>
  ELSE (IF Head(q) \in RegexMeta THEN <<"\\", Head(q)>> ELSE <<Head(q)>>)
       \o EscapeRegExp(Tail(q))

\* new RegExp(`(${p})`, 'gi') from position i of p: the atoms of the group,
\* or a SyntaxError.  An escaped character is a literal, a bare . matches
\* any character, a * repeats the atom before it and has nothing to repeat
\* at the start or after another *, a \ at the end escapes the closing
\* parenthesis and leaves the group unterminated.
RECURSIVE RegExpFrom(_, _)
RegExpFrom(p, i) ==
  IF i > Len(p) THEN [threw |-> FALSE, atoms |-> << >>]
  ELSE IF p[i] = "*" \/ (p[i] = "\\" /\ i = Len(p))
  THEN [threw |-> TRUE, atoms |-> << >>]
  ELSE LET escaped == p[i] = "\\"
           at == IF escaped THEN i + 1 ELSE i
           starred == at < Len(p) /\ p[at + 1] = "*"
           rest == RegExpFrom(p, at + (IF starred THEN 2 ELSE 1))
           atom == [ch |-> p[at], any |-> ~escaped /\ p[at] = ".",
                    star |-> starred]
       IN  [threw |-> rest.threw, atoms |-> <<atom>> \o rest.atoms]

RegExp(p) == RegExpFrom(p, 1)

\* one atom against one character, under the flag i
AtomMatches(atom, c) == atom.any \/ LowerChar(atom.ch) = LowerChar(c)

Max(S) == CHOOSE x \in S : \A y \in S : x >= y

\* the positions where a match of atoms k.. that starts at pos can end
RECURSIVE MatchEnds(_, _, _, _)
MatchEnds(atoms, k, text, pos) ==
  IF k > Len(atoms) THEN {pos}
  ELSE IF atoms[k].star
  THEN LET run == Max({n \in 0..(Len(text) + 1 - pos) :
                         \A j \in 0..(n - 1) : AtomMatches(atoms[k], text[pos + j])})
       IN  UNION {MatchEnds(atoms, k + 1, text, pos + m) : m \in 0..run}
  ELSE IF pos <= Len(text) /\ AtomMatches(atoms[k], text[pos])
  THEN MatchEnds(atoms, k + 1, text, pos + 1)
  ELSE {}

MarkOpen == "<mark>"
MarkClose == "</mark>"

\* text.replace(regex, '<mark class="highlight">$1</mark>') from position
\* pos on: matches are taken left to right, greedily, without overlap; after
\* an empty match the scan moves on by one character
RECURSIVE ReplaceAll(_, _, _)
ReplaceAll(atoms, text, pos) ==
  LET ends == MatchEnds(atoms, 1, text, pos)
  IN  IF pos > Len(text)
      THEN (IF ends = {} THEN << >> ELSE <<MarkOpen, MarkClose>>)
      ELSE IF ends = {}
      THEN <<text[pos]>> \o ReplaceAll(atoms, text, pos + 1)
      ELSE IF Max(ends) = pos
      THEN <<MarkOpen, MarkClose, text[pos]>> \o ReplaceAll(atoms, text, pos + 1)
      ELSE <<MarkOpen>> \o SubSeq(text, pos, Max(ends) - 1) \o <<MarkClose>>
           \o ReplaceAll(atoms, text, Max(ends))

\* what a render shows in place of the label when highlightMatch threw
SyntaxError == <<"SyntaxError">>

\* highlightMatch that puts the search text into the pattern as it is
highlightMatch_Unescaped(q, text) ==
  IF Trim(q) = << >> THEN text
  ELSE IF RegExp(Trim(q)).threw THEN SyntaxError
  ELSE ReplaceAll(RegExp(Trim(q)).atoms, text, 1)

\* highlightMatch(text) under the search text q
highlightMatch(q, text) ==
  IF Trim(q) = << >> THEN text
  ELSE LET query == Trim(q)
           regex == RegExp(EscapeRegExp(query))
       IN  IF regex.threw THEN SyntaxError ELSE ReplaceAll(regex.atoms, text, 1)

\* the characters of search texts
Chars == {".", "*", "a", "B", " "}

\* the search texts of up to MaxQueryLen characters
Texts == UNION {[1..n -> Chars] : n \in 0..MaxQueryLen}

\* the options a page can pass
OptionPool ==
  PropsOptions \o
  << [kind |-> "record", value |-> "z", label |-> <<".", "a", "a", "a">>,
      disabled |-> FALSE] >>

\* the option lists a page can pass: none, one or two options, or PropsOptions
OptionLists ==
  {<< >>, PropsOptions}
  \cup {<<OptionPool[i]>> : i \in 1..Len(OptionPool)}
  \cup {<<OptionPool[i], OptionPool[j]>> :
          i \in 1..Len(OptionPool), j \in 1..Len(OptionPool)}

\* the search texts a user types
Queries == { << >>, <<"a">>, <<"B">>, <<" ">> }

\* the refs of one widget, with the events a handler emitted
Refs(w) == [isOpen |-> isOpen[w], searchQuery |-> searchQuery[w],
            focusPending |-> focusPending[w], emits |-> << >>]

Event(kind, w, input) == [kind |-> kind, input |-> input, widget |-> w]

Emit(w, name, value) == [value |-> value, widget |-> w, event |-> name]

\* selectOption without its guard on option.disabled
selectOption_Unguarded(w, r, option) ==
  [r EXCEPT !.emits = r.emits \o << Emit(w, "update:modelValue", option.value),
                                    Emit(w, "change", option.value) >>,
            !.isOpen = FALSE,
            !.searchQuery = << >>]

\* selectOption that emits and leaves the dropdown as it is
selectOption_StaysOpen(w, r, option) ==
  IF option.disabled THEN r
  ELSE [r EXCEPT !.emits = r.emits \o << Emit(w, "update:modelValue", option.value),
                                         Emit(w, "change", option.value) >>]

\* selectOption(option) of widget w on its refs r
selectOption(w, r, option) ==
  IF option.disabled THEN r
  ELSE [r EXCEPT !.emits = r.emits \o << Emit(w, "update:modelValue", option.value),
                                        Emit(w, "change", option.value) >>,
                 !.isOpen = FALSE,
                 !.searchQuery = << >>]

\* toggleDropdown without its guard on props.disabled
toggleDropdown_Unguarded(w, r) ==
  [r EXCEPT !.isOpen = ~r.isOpen,
            !.focusPending = IF ~r.isOpen /\ props[w].searchable /\ ~touch
                             THEN TRUE ELSE r.focusPending]

\* toggleDropdown that focuses the search field on touch devices too
toggleDropdown_FocusOnTouch(w, r) ==
  IF props[w].disabled THEN r
  ELSE [r EXCEPT !.isOpen = ~r.isOpen,
                 !.focusPending = IF ~r.isOpen /\ props[w].searchable
                                  THEN TRUE ELSE r.focusPending]

\* toggleDropdown() of widget w on its refs r
toggleDropdown(w, r) ==
  IF props[w].disabled THEN r
  ELSE [r EXCEPT !.isOpen = ~r.isOpen,
                 !.focusPending = IF ~r.isOpen /\ props[w].searchable /\ ~touch
                                  THEN TRUE ELSE r.focusPending]

\* wrapperRef.value: the root element exists for a searchable widget only
HasRoot(w) == props[w].searchable

\* handleClickOutside that leaves every dropdown as it is
handleClickOutside_Ignores(w, r, inside) == r

\* handleClickOutside that closes the dropdown and keeps the search text
handleClickOutside_KeepsQuery(w, r, inside) ==
  IF HasRoot(w) /\ ~inside
  THEN [r EXCEPT !.isOpen = FALSE]
  ELSE r

\* handleClickOutside(event) of widget w; inside tells whether the root of w
\* contains the target
handleClickOutside(w, r, inside) ==
  IF HasRoot(w) /\ ~inside
  THEN [r EXCEPT !.isOpen = FALSE, !.searchQuery = << >>]
  ELSE r

\* handleKeydown(event) of widget w
handleKeydown(w, r, key) ==
  IF key = "Escape"
  THEN [r EXCEPT !.isOpen = FALSE, !.searchQuery = << >>]
  ELSE r

\* handleNativeChange(event) of widget w
handleNativeChange(w, r, value) ==
  [r EXCEPT !.emits = r.emits \o << Emit(w, "update:modelValue", value),
                                   Emit(w, "change", value) >>]

\* the document's click listeners: those of every mounted widget; target is
\* the widget whose root contains the click's target, or "none"
DocumentClick(w, r, target) ==
  IF mounted[w] THEN handleClickOutside(w, r, w = target) ELSE r

\* the document's keydown listeners
DocumentKeydown(w, r, key) ==
  IF mounted[w] THEN handleKeydown(w, r, key) ELSE r

\* a change of the search text queues a re-render of the widget
Queued ==
  rendered' = [w \in Widgets |->
                 IF searchQuery'[w] = searchQuery[w] THEN rendered[w] ELSE None]

\* the refs of every widget after one event was handled
SetRefs(after) ==
  /\ isOpen' = [w \in Widgets |-> after[w].isOpen]
  /\ searchQuery' = [w \in Widgets |-> after[w].searchQuery]
  /\ Queued
  /\ focusPending' = [w \in Widgets |-> after[w].focusPending]
  /\ emitted' = after["w1"].emits \o after["w2"].emits

\* no watcher job and no nextTick callback is waiting: the microtasks of the
\* last event have run
Settled == \A w \in Widgets : watched[w] = isOpen[w] /\ ~focusPending[w]

\* the searchable template of w is in the document
Rendered(w) == mounted[w] /\ props[w].searchable

\* onMounted
Mount(w) ==
  /\ lastEvent' = Event("mount", w, "")
  /\ ~mounted[w]
  /\ Settled
  /\ mounted' = [mounted EXCEPT ![w] = TRUE]
  /\ emitted' = << >>
  /\ UNCHANGED <<storeVars, options, rendered, props, touch, isOpen, searchQuery, watched,
                 focusPending, focused>>

\* onUnmounted: the listeners are removed and the instance is gone; a widget
\* mounted in its place is a new instance, with the refs of its own setup()
Unmount(w) ==
  /\ lastEvent' = Event("unmount", w, "")
  /\ mounted[w]
  /\ Settled
  /\ mounted' = [mounted EXCEPT ![w] = FALSE]
  /\ isOpen' = [isOpen EXCEPT ![w] = FALSE]
  /\ searchQuery' = [searchQuery EXCEPT ![w] = << >>]
  /\ watched' = [watched EXCEPT ![w] = FALSE]
  /\ rendered' = [rendered EXCEPT ![w] = None]
  /\ focused' = IF focused = w THEN "none" ELSE focused
  /\ emitted' = << >>
  /\ UNCHANGED <<storeVars, options, props, touch, focusPending>>

\* a click on the trigger of w: @click="toggleDropdown", then the document
ClickTrigger(w) ==
  /\ lastEvent' = Event("trigger", w, "")
  /\ Rendered(w)
  /\ Settled
  /\ SetRefs([u \in Widgets |->
        DocumentClick(u, IF u = w THEN toggleDropdown(u, Refs(u)) ELSE Refs(u), w)])
  /\ focused' = "none"
  /\ UNCHANGED <<storeVars, options, props, touch, mounted, watched>>

\* a click on a rendered option of w: @click="selectOption(option)", then the
\* document
ClickOption(w, i) ==
  /\ Rendered(w)
  /\ Settled
  /\ i \in 1..Len(filteredOptions(searchQuery[w]))
  /\ lastEvent' = Event("option", w, filteredOptions(searchQuery[w])[i].value)
  /\ SetRefs([u \in Widgets |->
        DocumentClick(u, IF u = w
                         THEN selectOption(u, Refs(u), filteredOptions(searchQuery[w])[i])
                         ELSE Refs(u), w)])
  /\ focused' = "none"
  /\ UNCHANGED <<storeVars, options, props, touch, mounted, watched>>

\* a click on the search field of w: @click.stop, the document is not reached
ClickSearchInput(w) ==
  /\ lastEvent' = Event("input", w, "")
  /\ Rendered(w)
  /\ Settled
  /\ isOpen[w]
  /\ focused' = w
  /\ emitted' = << >>
  /\ UNCHANGED <<storeVars, options, rendered, props, touch, mounted, isOpen, searchQuery, watched,
                 focusPending>>

\* typing in the search field of w: v-model="searchQuery"
TypeSearch(w, q) ==
  /\ lastEvent' = Event("type", w, "")
  /\ Rendered(w)
  /\ Settled
  /\ isOpen[w]
  /\ searchQuery' = [searchQuery EXCEPT ![w] = q]
  /\ focused' = w
  /\ Queued
  /\ emitted' = << >>
  /\ UNCHANGED <<storeVars, options, props, touch, mounted, isOpen, watched, focusPending>>

\* a click on the clear button of w: @click.stop="searchQuery = ''"
ClickClear(w) ==
  /\ lastEvent' = Event("clear", w, "")
  /\ Rendered(w)
  /\ Settled
  /\ isOpen[w]
  /\ searchQuery[w] # << >>
  /\ searchQuery' = [searchQuery EXCEPT ![w] = << >>]
  /\ focused' = "none"
  /\ Queued
  /\ emitted' = << >>
  /\ UNCHANGED <<storeVars, options, props, touch, mounted, isOpen, watched, focusPending>>

\* a click whose target is in the root of target but on no control of it, or
\* (target = "none") in no widget at all
ClickDocument(target) ==
  /\ lastEvent' = Event("click", target, "")
  /\ target \in Widgets => Rendered(target)
  /\ Settled
  /\ SetRefs([u \in Widgets |-> DocumentClick(u, Refs(u), target)])
  /\ focused' = "none"
  /\ UNCHANGED <<storeVars, options, props, touch, mounted, watched>>

\* a key goes down anywhere in the document
Keydown(key) ==
  /\ lastEvent' = Event("keydown", "none", key)
  /\ Settled
  /\ SetRefs([u \in Widgets |-> DocumentKeydown(u, Refs(u), key)])
  /\ UNCHANGED <<storeVars, options, props, touch, mounted, watched, focused>>

\* the native select of a widget that is not searchable changes
NativeChange(w, value) ==
  /\ lastEvent' = Event("native", w, value)
  /\ mounted[w] /\ ~props[w].searchable /\ ~props[w].disabled
  /\ Settled
  /\ SetRefs([u \in Widgets |->
        IF u = w THEN handleNativeChange(u, Refs(u), value) ELSE Refs(u)])
  /\ UNCHANGED <<storeVars, options, props, touch, mounted, watched, focused>>

\* a watcher of isOpen that leaves the search text as it is
WatchIsOpen_KeepsQuery(w) ==
  /\ lastEvent' = Event("watch", w, "")
  /\ watched[w] # isOpen[w]
  /\ watched' = [watched EXCEPT ![w] = isOpen[w]]
  /\ emitted' = << >>
  /\ UNCHANGED <<storeVars, options, rendered, props, touch, mounted, isOpen,
                 searchQuery, focusPending, focused>>

\* watch(isOpen, ...) of w runs before the next render
WatchIsOpen(w) ==
  /\ lastEvent' = Event("watch", w, "")
  /\ watched[w] # isOpen[w]
  /\ watched' = [watched EXCEPT ![w] = isOpen[w]]
  /\ searchQuery' = [searchQuery EXCEPT ![w] = IF ~isOpen[w] THEN << >> ELSE @]
  /\ Queued
  /\ emitted' = << >>
  /\ UNCHANGED <<storeVars, options, props, touch, mounted, isOpen, focusPending, focused>>

\* the nextTick callback of toggleDropdown: searchInputRef.value?.focus()
FocusSearchInput(w) ==
  /\ lastEvent' = Event("focus", w, "")
  /\ focusPending[w]
  /\ \A u \in Widgets : watched[u] = isOpen[u]
  /\ focusPending' = [focusPending EXCEPT ![w] = FALSE]
  /\ focused' = IF Rendered(w) /\ isOpen[w] THEN w ELSE focused
  /\ emitted' = << >>
  /\ UNCHANGED <<storeVars, options, rendered, props, touch, mounted, isOpen, searchQuery, watched>>

\* the render of w: v-for over filteredOptions, v-html of highlightMatch;
\* it runs after the watchers and before the nextTick callbacks
Render(w) ==
  /\ lastEvent' = Event("render", w, "")
  /\ Rendered(w)
  /\ \A u \in Widgets : watched[u] = isOpen[u]
  /\ rendered[w] = None
  /\ rendered' = [rendered EXCEPT ![w] =
        Some([items |-> filteredOptions(searchQuery[w]),
              html |-> [i \in 1..Len(filteredOptions(searchQuery[w])) |->
                          highlightMatch(searchQuery[w],
                                         filteredOptions(searchQuery[w])[i].label)]])]
  /\ emitted' = << >>
  /\ UNCHANGED <<storeVars, options, props, touch, mounted, isOpen, searchQuery,
                 watched, focusPending, focused>>

(***************************************************************************)
(* Specifications                                                          *)
(***************************************************************************)
\* the store after create(): lines 472-475
StoreInit ==
  /\ data = None
  /\ loading = TRUE
  /\ error = None
  /\ lastRefreshTime = None
  /\ pc = [k \in Calls |-> "idle"]
  /\ args = [k \in Calls |-> NoArgs]
  /\ payload = [k \in Calls |-> Undefined]
  /\ resolved = [k \in Calls |-> FALSE]
  /\ thrownBy = [k \in Calls |-> "none"]
  /\ wrote = << >>
  /\ finished = << >>
  /\ prev = [args |-> NoArgs, resolved |-> FALSE]

\* the widgets after setup(): lines 34-37
WidgetInit ==
  /\ mounted = [w \in Widgets |-> FALSE]
  /\ isOpen = [w \in Widgets |-> FALSE]
  /\ searchQuery = [w \in Widgets |-> << >>]
  /\ watched = [w \in Widgets |-> FALSE]
  /\ focusPending = [w \in Widgets |-> FALSE]
  /\ focused = "none"
  /\ emitted = << >>
  /\ rendered = [w \in Widgets |-> None]
  /\ lastEvent = Event("setup", "none", "")

Props == [disabled : BOOLEAN, searchable : BOOLEAN]

\* the store over any schema and any document; the widgets stay as set up
Init ==
  /\ schema \in Schemas
  /\ doc \in Docs
  /\ StoreInit
  /\ props = [w \in Widgets |-> [disabled |-> FALSE, searchable |-> TRUE]]
  /\ options = PropsOptions
  /\ touch = FALSE
  /\ WidgetInit

InFlight(k) == pc[k] \in {"waitInit", "writing", "written"}
NoneInFlight == \A k \in Calls : ~InFlight(k)

\* the store with two mutations that may overlap
Next ==
  \/ \E t \in Times : refresh(NoFault, t)
  \/ \E k \in Calls, p \in Paths, v \in Scalars : updateField(k, p, v)
  \/ \E k \in Calls, p \in Paths : deleteField(k, p)
  \/ \E k \in Calls : InitRejected(k)
  \/ \E k \in Calls, fault \in {NoFault} \cup SyncFaults : AfterInit(k, fault)
  \/ \E k \in Calls : WriteApplied(k)
  \/ \E k \in Calls : WriteRejected(k)
  \/ \E k \in Calls, f \in {NoFault, "Error:boom"}, t \in Times : WriteResolved(k, f, t)

Spec == Init /\ [][Next]_vars

\* the store with one mutation at a time, one call after the other, where
\* getVariables reads the document Mvu wrote without a fault
NextSeq ==
  \/ refresh(NoFault, 0)
  \/ \E p \in Paths, v \in Scalars : updateField("c1", p, v)
  \/ \E p \in Paths : deleteField("c1", p)
  \/ InitRejected("c1")
  \/ \E fault \in {NoFault} \cup SyncFaults : AfterInit("c1", fault)
  \/ WriteApplied("c1")
  \/ WriteRejected("c1")
  \/ WriteResolved("c1", NoFault, 0)
  \/ Return("c1")

SpecSeq == Init /\ [][NextSeq]_vars

\* the chat runtime (the model's reply, a world book) rewrites the document
DocumentChanged(d) ==
  /\ UNCHANGED widgetVars
  /\ doc' = d
  /\ UNCHANGED <<schema, data, loading, error, lastRefreshTime, callVars>>

\* the store read by refresh() alone
NextRefresh ==
  \/ \E f \in {NoFault} \cup Thrown, t \in Times : refresh(f, t)
  \/ \E d \in Docs : DocumentChanged(d)

SpecRefresh == Init /\ [][NextRefresh]_vars

\* the widgets of one page, under any props; the store stays as created
InitWidget ==
  /\ schema = "defaulted"
  /\ doc = Undefined
  /\ StoreInit
  /\ props \in [Widgets -> Props]
  /\ options = PropsOptions
  /\ touch \in BOOLEAN
  /\ WidgetInit

Keys == {"Escape", "Enter"}

NextWidget ==
  \/ \E w \in Widgets : Mount(w)
  \/ \E w \in Widgets : Unmount(w)
  \/ \E w \in Widgets : ClickTrigger(w)
  \/ \E w \in Widgets, i \in 1..Len(PropsOptions) : ClickOption(w, i)
  \/ \E w \in Widgets : ClickSearchInput(w)
  \/ \E w \in Widgets, q \in Queries : TypeSearch(w, q)
  \/ \E w \in Widgets : ClickClear(w)
  \/ \E target \in Widgets \cup {"none"} : ClickDocument(target)
  \/ \E key \in Keys : Keydown(key)
  \/ \E w \in Widgets, i \in 1..Len(PropsOptions) : NativeChange(w, PropsOptions[i].value)
  \/ \E w \in Widgets : WatchIsOpen(w)
  \/ \E w \in Widgets : FocusSearchInput(w)

SpecWidget == InitWidget /\ [][NextWidget]_vars

\* the parent passes new props to w: disabled and searchable are reactive
PropsChanged(w, p) ==
  /\ lastEvent' = Event("props", w, "")
  /\ p # props[w]
  /\ Settled
  /\ props' = [props EXCEPT ![w] = p]
  /\ focused' = IF focused = w /\ ~p.searchable THEN "none" ELSE focused
  /\ emitted' = << >>
  /\ UNCHANGED <<storeVars, options, rendered, touch, mounted, isOpen, searchQuery, watched,
                 focusPending>>

\* the widgets of one page whose parent changes their props while they live
NextProps ==
  \/ NextWidget
  \/ \E w \in Widgets, p \in Props : PropsChanged(w, p)

SpecProps == InitWidget /\ [][NextProps]_vars

\* one searchable widget over any option list, with its renders
InitRender ==
  /\ schema = "defaulted"
  /\ doc = Undefined
  /\ StoreInit
  /\ props = [w \in Widgets |-> [disabled |-> FALSE, searchable |-> TRUE]]
  /\ options \in OptionLists
  /\ touch = FALSE
  /\ WidgetInit

NextRender ==
  \/ Mount("w1")
  \/ ClickTrigger("w1")
  \/ WatchIsOpen("w1")
  \/ FocusSearchInput("w1")
  \/ \E q \in Texts : TypeSearch("w1", q)
  \/ Render("w1")

SpecRender == InitRender /\ [][NextRender]_vars

(***************************************************************************)
(* Properties of refresh                                                   *)
(***************************************************************************)
\* the raw stat_data refresh() reads from the document
RawData == GetRaw(doc)

\* the schema has a default instance
HasDefaults == ~ParseEmpty(schema).threw

\* the deep merge of the raw data over the schema's defaults
MergedData ==
  Merge(ParseEmpty(schema).value, IF IsObject(RawData) THEN RawData ELSE EmptyObject)

FailsDirectly == ~SafeParse(schema, RawData).success
Repairable == HasDefaults /\ SafeParse(schema, MergedData).success

\* C4: for a raw stat_data that fails the validation while its deep merge
\* over the schema's defaults passes it, refresh() ends with data = the
\* validated merged document, error = null, loading = false and
\* lastRefreshTime stamped with the time of the call.
C4_RepairedRefresh ==
  [][\A t \in Times :
       (refresh(NoFault, t) /\ FailsDirectly /\ Repairable)
       => /\ data' = Some(SafeParse(schema, MergedData).data)
          /\ error' = None
          /\ loading' = FALSE
          /\ lastRefreshTime' = Some(t)]_vars

\* a refresh repaired a document that lacks the required field a.b and keeps
\* its own a.c
C4_Witness ==
  /\ doc = ObjectA(Absent, "v5")
  /\ data = Some(ObjectA(DefaultNumber, "v5"))
  /\ error = None
  /\ ~loading
  /\ lastRefreshTime # None

\* C5: for a raw stat_data that fails the validation directly and after the
\* merge with the defaults (or for which no defaults can be built), refresh()
\* leaves data and lastRefreshTime as they were, sets error to a non-empty
\* string and loading to false.
C5_FailedRefresh ==
  [][\A t \in Times :
       (refresh(NoFault, t) /\ FailsDirectly /\ ~Repairable)
       => /\ data' = data
          /\ lastRefreshTime' = lastRefreshTime
          /\ error' # None
          /\ error'[1] # ""
          /\ loading' = FALSE]_vars

\* a refresh failed on a document beyond repair after an earlier refresh had
\* succeeded: the earlier data is still there
C5_Witness ==
  /\ FailsDirectly /\ ~Repairable
  /\ error = Some(FormatErrorText(SafeParse(schema, RawData).message))
  /\ data # None
  /\ ~loading

\* C6: a fault thrown by the fetch step of refresh() is caught: error becomes
\* a message (not null), loading becomes false, data and lastRefreshTime stay
\* as they were, and refresh() returns.
C6_RefreshCatchesFaults ==
  [][\A f \in Thrown, t \in Times :
       refresh(f, t)
       => /\ error' # None
          /\ error' = Some(FaultText(f))
          /\ loading' = FALSE
          /\ data' = data
          /\ lastRefreshTime' = lastRefreshTime]_vars

\* a refresh caught an Error with an empty message after an earlier refresh
\* had succeeded
C6_Witness ==
  /\ error = Some("")
  /\ data # None
  /\ lastRefreshTime # None
  /\ ~loading

(***************************************************************************)
(* Properties of updateField and deleteField                               *)
(***************************************************************************)
Update(p, v) == [value |-> v, op |-> "update", path |-> p]
Delete(p) == [value |-> Absent, op |-> "delete", path |-> p]

\* the mutation that resolved last, with no mutation started since, was a
\* and it resolved true
LastResolvedTrue(a) ==
  \/ pc["c1"] = "done" /\ resolved["c1"] /\ args["c1"] = a
  \/ pc["c1"] = "idle" /\ prev = [args |-> a, resolved |-> TRUE]

\* C1: with one mutation at a time and getVariables reading the document Mvu
\* wrote: once updateField(p, v) has resolved true and the resulting stat_data
\* validates, data holds v at p and error is null, and this stays so over
\* every further refresh().
C1_UpdateIsRead ==
  \A p \in Paths, v \in Scalars :
    (LastResolvedTrue(Update(p, v)) /\ SafeParse(schema, RawData).success)
    => /\ data # None
       /\ GetAt(data[1], p) = v
       /\ error = None

\* updateField('a.b', 5) resolved true on a document that validates
C1_Witness ==
  /\ LastResolvedTrue(Update("a.b", "v5"))
  /\ SafeParse(schema, RawData).success
  /\ data # None
  /\ GetAt(data[1], "a.b") = "v5"

\* deleteField(p) resolved true right after updateField(p, v) had
DeletedAfterUpdate(p, v) ==
  /\ pc["c1"] = "done" /\ resolved["c1"] /\ args["c1"] = Delete(p)
  /\ prev = [args |-> Update(p, v), resolved |-> TRUE]

\* C7 as stated: after updateField(p, v) and then deleteField(p) resolved
\* true, the document has no value at p, and data has p absent or equal to the
\* schema default, never v (a v that is not itself the default).
C7_Original ==
  \A p \in Paths, v \in Scalars :
    DeletedAfterUpdate(p, v)
    => /\ GetAt(doc, p) = Absent
       /\ data # None
            => /\ GetAt(data[1], p) \in {Absent, SchemaDefaultAt(schema, p)}
               /\ v # SchemaDefaultAt(schema, p) => GetAt(data[1], p) # v

\* C7: after updateField(p, v) and then deleteField(p) resolved true, the
\* document has no value at p; and when the refresh of deleteField succeeded
\* (error is null), data has p absent or equal to the schema default.
C7_DeleteRemoves ==
  \A p \in Paths, v \in Scalars :
    DeletedAfterUpdate(p, v)
    => /\ GetAt(doc, p) = Absent
       /\ error = None
            => /\ data # None
               /\ GetAt(data[1], p) \in {Absent, SchemaDefaultAt(schema, p)}

\* deleteField('a.b') resolved true after updateField('a.b', 5), and the
\* refresh shows the default at a.b
C7_Witness ==
  /\ DeletedAfterUpdate("a.b", "v5")
  /\ error = None
  /\ data # None
  /\ GetAt(data[1], "a.b") = DefaultNumber

\* both calls went through their write-back and their refresh
BothResolvedTrue == \A k \in Calls : pc[k] = "done" /\ resolved[k]

\* the error a refresh leaves when its fetch step threw
FaultErrors == {Some(FaultText(f)) : f \in Thrown}

\* C2: when two updateField / deleteField calls overlap, then after both have
\* completed the document is the whole document written by the call whose
\* write-back was applied last (so the change of the other call can be lost),
\* and the store shows what a refresh of that final document gives, whatever
\* the order in which the calls were started: its validated form and no
\* error, or the validation error (unless the last refresh caught a fault).
C2_LastWriteWins ==
  BothResolvedTrue
  => /\ doc = payload[wrote[Len(wrote)]]
     /\ error \notin FaultErrors
          => IF Validate(schema, RawData).success
             THEN data = Some(Validate(schema, RawData).data) /\ error = None
             ELSE error = Some(FormatErrorText(Validate(schema, RawData).message))

\* two overlapping updates of different paths both resolved true, and the
\* change of the call that wrote first is lost
C2_Witness ==
  /\ BothResolvedTrue
  /\ args["c1"] = Update("a.b", "v5")
  /\ args["c2"] = Update("a.c", "v5")
  /\ wrote = <<"c1", "c2">>
  /\ finished = <<"c2", "c1">>
  /\ GetAt(doc, "a.b") # "v5"
  /\ GetAt(doc, "a.c") = "v5"
  /\ data # None /\ GetAt(data[1], "a.c") = "v5"

\* C3 as stated: a call resolves false exactly when waitGlobalInitialized,
\* Mvu.getMvuData, the path set / unset or Mvu.replaceMvuData threw or
\* rejected, and true in every other case.
C3_Original ==
  \A k \in Calls :
    pc[k] = "done"
    => (resolved[k] = FALSE
        <=> thrownBy[k] \in {"getMvuData", "pathOp", "replaceMvuData",
                             "waitGlobalInitialized"})

\* C3: a call never rejects; it resolves false exactly when
\* waitGlobalInitialized, getCurrentMessageId, Mvu.getMvuData, the path set /
\* unset or Mvu.replaceMvuData threw or rejected, and true in every other
\* case, also when the refresh it triggers caught a fault of its own.
C3_ResolvesFalseOnFault ==
  \A k \in Calls :
    pc[k] = "done"
    => /\ resolved[k] \in BOOLEAN
       /\ resolved[k] = FALSE
            <=> thrownBy[k] \in {"getCurrentMessageId", "getMvuData", "pathOp",
                                 "replaceMvuData", "waitGlobalInitialized"}

\* one call resolved false on a rejected write-back, the other resolved true
\* although its refresh caught a fault
C3_Witness ==
  /\ pc["c1"] = "done" /\ ~resolved["c1"] /\ thrownBy["c1"] = "replaceMvuData"
  /\ pc["c2"] = "done" /\ resolved["c2"] /\ thrownBy["c2"] = "none"
  /\ finished = <<"c1", "c2">>
  /\ error \in FaultErrors

(***************************************************************************)
(* Properties of the widget                                                *)
(***************************************************************************)
\* the option of value v, as normalizedOptions shows it
OptionOf(v) ==
  normalizedOptions[CHOOSE i \in 1..Len(normalizedOptions) : normalizedOptions[i].value = v]

\* C8: selectOption called with a disabled option emits neither
\* 'update:modelValue' nor 'change' and leaves the open flag and the search
\* text of its widget as they were, whatever the state of the widget.
C8_DisabledOptionIsNoOp ==
  [][(lastEvent'.kind = "option" /\ OptionOf(lastEvent'.input).disabled)
       => /\ emitted' = << >>
          /\ isOpen'[lastEvent'.widget] = isOpen[lastEvent'.widget]
          /\ searchQuery'[lastEvent'.widget] = searchQuery[lastEvent'.widget]]_vars

\* a disabled option was clicked in an open dropdown with a search text
C8_Witness ==
  /\ lastEvent.kind = "option"
  /\ OptionOf(lastEvent.input).disabled
  /\ isOpen[lastEvent.widget]
  /\ searchQuery[lastEvent.widget] # << >>

\* C9: selectOption called with an option that is not disabled emits
\* 'update:modelValue' and then 'change', each once and each with the value of
\* the option, and leaves the dropdown closed with an empty search text.
C9_EnabledOptionSelects ==
  (lastEvent.kind = "option" /\ ~OptionOf(lastEvent.input).disabled)
    => /\ emitted = << Emit(lastEvent.widget, "update:modelValue", lastEvent.input),
                       Emit(lastEvent.widget, "change", lastEvent.input) >>
       /\ ~isOpen[lastEvent.widget]
       /\ searchQuery[lastEvent.widget] = << >>

\* an enabled option was clicked in a dropdown that was open
C9_Witness ==
  /\ lastEvent.kind = "option"
  /\ ~OptionOf(lastEvent.input).disabled
  /\ watched[lastEvent.widget]
  /\ ~isOpen[lastEvent.widget]

\* the click handled last reached the document with its target outside w
OutsideClick(w) ==
  lastEvent.kind \in {"option", "trigger", "click"} /\ lastEvent.widget # w

\* the click handled last hit the root of w, on none of its controls
InsideClick(w) == lastEvent.kind = "click" /\ lastEvent.widget = w

EscapeKey == lastEvent.kind = "keydown" /\ lastEvent.input = "Escape"

EmittedBy(w) == SelectSeq(emitted, LAMBDA e : e.widget = w)

\* C10: for a mounted searchable widget in any state, a document click with
\* its target outside the root of the widget, or a keydown of Escape, leaves
\* the dropdown closed and the search text empty and emits no event; a click
\* with its target inside the root changes neither.
C10_Dismissal ==
  [][\A w \in Widgets :
       (mounted[w] /\ props[w].searchable)
       => /\ (OutsideClick(w)' \/ EscapeKey')
               => /\ ~isOpen'[w]
                  /\ searchQuery'[w] = << >>
                  /\ EmittedBy(w)' = << >>
          /\ InsideClick(w)'
               => /\ isOpen'[w] = isOpen[w]
                  /\ searchQuery'[w] = searchQuery[w]]_vars

\* a dropdown that was open was dismissed by a click outside its root
C10_Witness ==
  \E w \in Widgets :
    /\ mounted[w] /\ props[w].searchable
    /\ OutsideClick(w)
    /\ watched[w]
    /\ ~isOpen[w]

\* an open dropdown with a search text took a click inside its root
C10_WitnessInside ==
  \E w \in Widgets : InsideClick(w) /\ isOpen[w] /\ searchQuery[w] # << >>

(***************************************************************************)
(* Properties of toggleDropdown                                            *)
(***************************************************************************)
\* the event handled last is a click on the trigger of w
TriggerClick(w) == lastEvent.kind = "trigger" /\ lastEvent.widget = w

\* C11: toggleDropdown is a no-op when the prop disabled is true, whether the
\* dropdown is open or closed: the open flag, the search text and the
\* scheduled focus stay as they were; when the control is not disabled it
\* sets the open flag to the negation of its previous value and emits no
\* event.
C11_ToggleGuard ==
  [][\A w \in Widgets :
       TriggerClick(w)'
       => IF props[w].disabled
          THEN /\ isOpen'[w] = isOpen[w]
               /\ searchQuery'[w] = searchQuery[w]
               /\ focusPending'[w] = focusPending[w]
               /\ emitted' = << >>
          ELSE /\ isOpen'[w] = ~isOpen[w]
               /\ emitted' = << >>]_vars

\* the trigger of a disabled control was clicked while its dropdown was open
\* with a search text
C11_Witness ==
  \E w \in Widgets :
    /\ TriggerClick(w)
    /\ props[w].disabled
    /\ isOpen[w]
    /\ searchQuery[w] # << >>

(***************************************************************************)
(* Properties of filteredOptions and highlightMatch                        *)
(***************************************************************************)
\* label has an occurrence of part at position i, compared case-insensitively
OccursAt(label, part, i) ==
  /\ i + Len(part) - 1 <= Len(label)
  /\ \A j \in 1..Len(part) : LowerChar(label[i + j - 1]) = LowerChar(part[j])

ContainsText(label, part) == \E i \in 1..(Len(label) + 1) : OccursAt(label, part, i)

\* the options of the list whose label contains part, in the order of the list
Matching(part) ==
  SelectSeq(normalizedOptions, LAMBDA option : ContainsText(option.label, part))

\* the widget whose render is looked at
RenderedWidget == "w1"
Shown == rendered[RenderedWidget][1]

\* C12 as stated: with an empty search text the render shows the whole
\* normalized list in order, with a search text that is not empty exactly
\* the options whose label contains the search text.
C12_Original ==
  rendered[RenderedWidget] # None
  => Shown.items = IF searchQuery[RenderedWidget] = << >>
                   THEN normalizedOptions
                   ELSE Matching(searchQuery[RenderedWidget])

\* C12: for every option list, when the search text is empty or only white
\* space, filteredOptions is the whole normalized list in its order; for
\* every other search text it is the order-preserving sub-list of exactly
\* the options whose label contains the search text as typed (white space
\* at its ends included), compared case-insensitively.
C12_Filtered ==
  rendered[RenderedWidget] # None
  => Shown.items = IF Trim(searchQuery[RenderedWidget]) = << >>
                   THEN normalizedOptions
                   ELSE Matching(searchQuery[RenderedWidget])

\* a render under a search text that differs from a label only in case kept
\* that option and dropped another
C12_Witness ==
  /\ rendered[RenderedWidget] # None
  /\ searchQuery[RenderedWidget] = <<"a", "B">>
  /\ Len(Shown.items) = 1
  /\ Len(options) = 2
  /\ Shown.items[1].label = <<"A", "b">>

\* label from position pos on, with every occurrence of part (taken left to
\* right, without overlap) between the markers
RECURSIVE Marked(_, _, _)
Marked(label, part, pos) ==
  IF pos > Len(label) THEN << >>
  ELSE IF part # << >> /\ OccursAt(label, part, pos)
  THEN <<MarkOpen>> \o SubSeq(label, pos, pos + Len(part) - 1) \o <<MarkClose>>
       \o Marked(label, part, pos + Len(part))
  ELSE <<label[pos]>> \o Marked(label, part, pos + 1)

\* C13 as stated: every rendered label is the label with every occurrence
\* of the search text, taken literally, between the markers.
C13_Original ==
  rendered[RenderedWidget] # None
  => \A i \in 1..Len(Shown.items) :
       Shown.html[i] = Marked(Shown.items[i].label, searchQuery[RenderedWidget], 1)

\* C13: for every search text, regex metacharacters included, highlightMatch
\* does not throw and returns the label with every occurrence (left to
\* right, without overlap, compared case-insensitively) of the trimmed
\* search text, taken literally, between the markers and every other
\* character unchanged; a search text of white space only marks nothing.
C13_Highlighted ==
  rendered[RenderedWidget] # None
  => \A i \in 1..Len(Shown.items) :
       /\ Shown.html[i] # SyntaxError
       /\ Shown.html[i] =
            Marked(Shown.items[i].label, Trim(searchQuery[RenderedWidget]), 1)

\* a render under the search text "." marked the one dot of a label and none
\* of its other characters
C13_Witness ==
  /\ rendered[RenderedWidget] # None
  /\ searchQuery[RenderedWidget] = <<".">>
  /\ \E i \in 1..Len(Shown.items) :
       Shown.html[i] = <<MarkOpen, ".", MarkClose, "a", "a", "a">>

(***************************************************************************)
(* Properties of the order of the steps of a mutation                      *)
(***************************************************************************)
\* the steps a call can take, as pairs of the places where it is suspended
StepOrder ==
  { <<"idle", "waitInit">>, <<"waitInit", "done">>, <<"waitInit", "writing">>,
    <<"done", "idle">>, <<"writing", "done">>, <<"writing", "written">>,
    <<"written", "done">> }

Range(seq) == {seq[i] : i \in 1..Len(seq)}

\* C14: every call of updateField / deleteField takes its steps in the order
\* wait for Mvu, read the document and set / unset the path in it, write
\* the whole document back, refresh(); refresh() runs only in the step that
\* follows the completed write-back, on the document as written, and every
\* other step of the call, a faulting one included, leaves data, loading,
\* error and lastRefreshTime as they were.
C14_StepsInOrder ==
  [][\A k \in Calls :
       pc'[k] # pc[k]
       => /\ <<pc[k], pc'[k]>> \in StepOrder
          /\ pc'[k] = "writing" => payload'[k] = PathOp(args[k], doc) /\ doc' = doc
          /\ pc'[k] = "written" => doc' = payload[k]
          /\ IF pc'[k] = "done" /\ resolved'[k]
             THEN /\ pc[k] = "written"
                  /\ k \in Range(wrote)
                  /\ \E t \in Times : Store' = Refreshed(Store, schema, doc, NoFault, t)
             ELSE UNCHANGED <<data, loading, error, lastRefreshTime>>]_vars

\* a call whose write-back was applied and then rejected: the document is
\* the one written and the store, never refreshed, is as it was created
C14_Witness ==
  \E k \in Calls :
    /\ pc[k] = "done" /\ ~resolved[k]
    /\ thrownBy[k] = "replaceMvuData"
    /\ k \in Range(wrote)
    /\ GetAt(doc, "a.b") = "v5"
    /\ loading /\ data = None /\ error = None

(***************************************************************************)
(* Properties of the repair attempt                                        *)
(***************************************************************************)
\* C15: each refresh() validates the raw data once and the merged data at
\* most once (only after the raw data failed and the defaults were built),
\* and when the repair does not succeed, because the merged data fails too
\* or building the defaults throws, the error reported is the one of the
\* validation of the raw data.
C15_OneRepairAttempt ==
  [][\A t \in Times :
       refresh(NoFault, t)
       => LET calls == SafeParseCalls(schema, RawData)
          IN  /\ Len(calls) \in {1, 2}
              /\ calls[1] = RawData
              /\ Len(calls) = 2
                   => FailsDirectly /\ HasDefaults /\ calls[2] = MergedData
              /\ (FailsDirectly /\ ~Repairable)
                   => error' = Some(FormatErrorText(SafeParse(schema, RawData).message))]_vars

\* a failed refresh whose raw data and merged data fail for different
\* reasons: the error names the field the merge had filled in
C15_Witness ==
  /\ schema = "defaulted"
  /\ doc = ObjectA(Absent, "bad")
  /\ SafeParse(schema, MergedData).message = "a.c: expected number;"
  /\ error = Some(FormatErrorText("a.b: required;a.c: expected number;"))

(***************************************************************************)
(* Properties of the deferred focus                                        *)
(***************************************************************************)
\* the event handled last is the nextTick callback of w
FocusRun(w) == lastEvent.kind = "focus" /\ lastEvent.widget = w

\* C16: toggleDropdown schedules a focus of the search field exactly when
\* the toggle opens the dropdown, the widget is searchable and the device is
\* not touch-capable (so none when it closes the dropdown, on a touch
\* device, or when the control is disabled); the toggle itself never moves
\* the focus to the field, a later step does, and that step only runs with
\* a focus scheduled.
C16_DeferredFocus ==
  [][\A w \in Widgets :
       /\ TriggerClick(w)'
            => /\ focusPending'[w]
                    <=> (isOpen'[w] /\ ~isOpen[w] /\ props[w].searchable /\ ~touch)
               /\ props[w].disabled => ~focusPending'[w]
               /\ focused' # w
       /\ FocusRun(w)'
            => /\ focusPending[w] /\ ~focusPending'[w]
               /\ isOpen[w] /\ ~touch
               /\ focused' = w]_vars

\* the scheduled focus ran: the search field of an open dropdown has the focus
C16_Witness ==
  \E w \in Widgets :
    /\ FocusRun(w)
    /\ focused = w
    /\ isOpen[w]
    /\ ~focusPending[w]

\* on a touch device a toggle opened the dropdown and scheduled no focus
C16_WitnessTouch ==
  \E w \in Widgets : TriggerClick(w) /\ touch /\ isOpen[w] /\ ~focusPending[w]

(***************************************************************************)
(* Properties of the store across refreshes                                *)
(***************************************************************************)
\* the validation refresh() would make of the document as it is now
Current == Validate(schema, RawData)

\* this step is a refresh() that found no fault and a valid document
SuccessfulRefresh ==
  /\ \E t \in Times : refresh(NoFault, t)
  /\ Current.success

\* C17: across any sequence of refreshes, successful or failed, data is
\* non-null exactly when lastRefreshTime is non-null; data and
\* lastRefreshTime change only in a successful refresh, which sets data to
\* the document it validated, and every successful refresh does so: data is
\* the result of the most recent successful refresh, also next to an error
\* left by a later failed one.
C17_DataOfLastSuccess ==
  /\ [](data # None <=> lastRefreshTime # None)
  /\ [][/\ (data' # data \/ lastRefreshTime' # lastRefreshTime) => SuccessfulRefresh
        /\ SuccessfulRefresh
             => /\ data' = Some(Current.data)
                /\ lastRefreshTime' # None
                /\ error' = None]_vars

\* a successful refresh, a change of the document, a failed refresh: data is
\* the earlier result, which the document as it is now would not give
C17_Witness ==
  /\ data # None
  /\ error # None
  /\ lastRefreshTime = Some(MaxTime)
  /\ Current.success
  /\ data # Some(Current.data)

(***************************************************************************)
(* Properties of the search text of a closed dropdown                      *)
(***************************************************************************)
\* the watcher of isOpen of w has seen the current value
WatcherRan(w) == watched[w] = isOpen[w]

\* C18: in a searchable widget, whenever the dropdown is closed and the
\* watcher of isOpen has run, the search text is empty, after every
\* sequence of toggles, typing, clear-button, select, outside-click and
\* Escape events; this includes a close by toggleDropdown, which leaves the
\* text to the watcher.
C18_ClosedMeansCleared ==
  \A w \in Widgets :
    (props[w].searchable /\ ~isOpen[w] /\ WatcherRan(w)) => searchQuery[w] = << >>

\* toggleDropdown closed a dropdown with a search text: the text is still
\* there, the watcher has not run yet
C18_Witness ==
  \E w \in Widgets :
    /\ TriggerClick(w)
    /\ props[w].searchable
    /\ ~isOpen[w]
    /\ ~WatcherRan(w)
    /\ searchQuery[w] # << >>

(***************************************************************************)
(* Properties of loading                                                   *)
(***************************************************************************)
\* no refresh() has returned yet: the store is as create() left it
NeverRefreshed == data = None /\ error = None /\ lastRefreshTime = None

\* this step is the one in which call k runs get().refresh() and resolves
ResolvesTrue(k) == pc[k] = "written" /\ pc'[k] = "done" /\ resolved'[k]

\* C19: loading is true exactly as long as no refresh() has returned; every
\* refresh(), whether it succeeds, fails the validation or catches a fault,
\* returns with loading = false; the steps of updateField / deleteField
\* before their refresh() do not touch loading, so that loading is false
\* while a mutation is suspended at an await after a first refresh.
C19_Loading ==
  /\ [](loading <=> NeverRefreshed)
  /\ [](\A k \in Calls : (InFlight(k) /\ ~NeverRefreshed) => ~loading)
  /\ [][/\ (\E t \in Times : refresh(NoFault, t)) => ~loading'
        /\ \A k \in Calls :
             /\ ResolvesTrue(k) => ~loading'
             /\ (pc'[k] # pc[k] /\ ~ResolvesTrue(k)) => loading' = loading]_vars

\* a mutation is suspended at its write-back after a refresh that failed the
\* validation and one that caught a fault: loading is false
C19_Witness ==
  \E k \in Calls, j \in Calls :
    /\ pc[k] = "writing"
    /\ pc[j] = "done" /\ resolved[j]
    /\ error = Some(FaultText("Error:boom"))
    /\ data = None
    /\ ~loading

(***************************************************************************)
(* Properties of several widgets on one page                               *)
(***************************************************************************)
\* the mounted searchable widgets whose dropdown is open
OpenWidgets == {w \in Widgets : mounted[w] /\ props[w].searchable /\ isOpen[w]}

\* C20: with several mounted searchable widgets on one page and fixed props,
\* after any sequence of clicks (on triggers, options, search fields or
\* elsewhere) and key presses, at most one widget's dropdown is open: the
\* click that opens one widget is an outside click for every other one.
C20_AtMostOneOpen == Cardinality(OpenWidgets) <= 1

\* the click on the trigger of one widget opened it and closed the other,
\* whose search text the click cleared as well
C20_Witness ==
  \E w \in Widgets, u \in Widgets :
    /\ w # u
    /\ TriggerClick(w)
    /\ isOpen[w]
    /\ mounted[u] /\ props[u].searchable
    /\ ~isOpen[u] /\ ~WatcherRan(u)

====
